---------------------------- MODULE Spec2Model ----------------------------
(***************************************************************************)
(* A model of pilco/controllers.py: the squashing transform squash_sin,    *)
(* LinearController, RbfController and CombinedController.                 *)
(*                                                                         *)
(* Numbers are fixed-point integers: the real number x is carried as the   *)
(* integer x * SC.  Tensors carry their shape, and the tensor operations   *)
(* follow TensorFlow's shape rules: an operation whose operand shapes      *)
(* TensorFlow rejects yields the error tensor, and one whose operand       *)
(* shapes TensorFlow broadcasts yields the broadcast result.               *)
(***************************************************************************)
EXTENDS Integers, Sequences, FiniteSets, TLC

(***************************************************************************)
(* Fixed-point scalars.                                                    *)
(***************************************************************************)
\* The smallest number the source names is the jitter 1e-6 of
\* RbfController.compute_action: reals are carried to six decimals, 1e-6 being
\* the square of 1 / HalfSC.
HalfSC == 1000

\* One unit of the fixed-point scale.
SC == HalfSC * HalfSC

\* The step between two entries of the function tables (0.125), and the
\* number of steps in one unit.
TabPerUnit == 8

TabStep == SC \div TabPerUnit

Abs(x) == IF x < 0 THEN -x ELSE x

Sgn(x) == IF x < 0 THEN -1 ELSE IF x > 0 THEN 1 ELSE 0

Max2(x, y) == IF x < y THEN y ELSE x

\* |x| * |y| / SC for x, y >= 0, rounded down, computed in parts.
MulMag(x, y) ==
    LET xh == x \div HalfSC
        xl == x % HalfSC
        yh == y \div HalfSC
        yl == y % HalfSC
    IN  xh * yh + ((xh * yl + xl * yh + ((xl * yl) \div HalfSC)) \div HalfSC)

\* The fixed-point product x * y, rounded towards zero.
MulFix(x, y) == Sgn(x) * Sgn(y) * MulMag(Abs(x), Abs(y))

\* x / 2, rounded towards zero.
Half(x) == Sgn(x) * (Abs(x) \div 2)

\* sin and cos at 0, 0.125, ..., 8 and exp at -8, -7.875, ..., 3.75.
SinTab ==
    << 0, 124675, 247404, 366273, 479426, 585097, 681639, 767544,
       841471, 902268, 948985, 980893, 997495, 998531, 983986, 954086,
       909297, 850320, 778073, 693685, 598472, 493920, 381661, 263446,
       141120, 16592, -108195, -231294, -350783, -464799, -571561, -669405,
       -756802, -832391, -894989, -943622, -977530, -996184, -999293, -986808,
       -958924, -916077, -858934, -788389, -705540, -611682, -508279, -396944,
       -279415, -157526, -33179, 91686, 215120, 335197, 450044, 557868,
       656987, 745853, 823081, 887465, 938000, 973898, 994599, 999779,
       989358 >>

CosTab ==
    << 1000000, 992198, 968912, 930508, 877583, 810963, 731689, 640997,
       540302, 431177, 315322, 194548, 70737, -54177, -178246, -299534,
       -416147, -526266, -628174, -720278, -801144, -869507, -924302, -964674,
       -989992, -999862, -994130, -972884, -936457, -885416, -820559, -742898,
       -653644, -554190, -446087, -331024, -210796, -87278, 37602, 161895,
       283662, 401003, 512085, 615177, 708670, 791104, 861192, 917843,
       960170, 987515, 999449, 995788, 976588, 942148, 893006, 829930,
       753902, 666110, 567924, 460876, 346635, 226986, 103794, -21017,
       -145500 >>

ExpTab ==
    << 335, 380, 431, 488, 553, 627, 710, 805,
       912, 1033, 1171, 1327, 1503, 1704, 1930, 2187,
       2479, 2809, 3183, 3607, 4087, 4631, 5248, 5946,
       6738, 7635, 8652, 9804, 11109, 12588, 14264, 16163,
       18316, 20754, 23518, 26649, 30197, 34218, 38774, 43937,
       49787, 56416, 63928, 72440, 82085, 93014, 105399, 119433,
       135335, 153355, 173774, 196912, 223130, 252840, 286505, 324652,
       367879, 416862, 472367, 535261, 606531, 687289, 778801, 882497,
       1000000, 1133148, 1284025, 1454991, 1648721, 1868246, 2117000, 2398875,
       2718282, 3080217, 3490343, 3955077, 4481689, 5078419, 5754603, 6520819,
       7389056, 8372897, 9487736, 10751013, 12182494, 13804574, 15642632, 17725424,
       20085537, 22759895, 25790340, 29224284, 33115452, 37524723, 42521082 >>

\* The table tab read at x, where entry zero + 1 is the value at 0: linear
\* between two entries and held at the end entries beyond the table.
Interp(tab, zero, x) ==
    LET k == IF x >= 0 THEN x \div TabStep ELSE -((-x + TabStep - 1) \div TabStep)
        f == x - k * TabStep
        i == k + zero + 1
    IN  IF i < 1 THEN tab[1]
        ELSE IF i >= Len(tab) THEN tab[Len(tab)]
        ELSE tab[i] + MulFix(tab[i + 1] - tab[i], TabPerUnit * f)

\* The index before the entry of ExpTab for exp(0).
ExpZero == 8 * TabPerUnit

\* tf.sin, tf.cos and tf.exp of one number: sin is odd and cos is even.
Sin(x) == Sgn(x) * Interp(SinTab, 0, Abs(x))

Cos(x) == Interp(CosTab, 0, Abs(x))

Exp(x) == Interp(ExpTab, ExpZero, x)

\* atan2 with the factor +1 / math.pi in place of -1 / math.pi.
Atan2OverPi(y, x) ==
    LET ay == Abs(y)
        ax == Abs(x)
        mag == IF ay = 0 THEN (IF x >= 0 THEN 0 ELSE 8)
               ELSE IF x = 0 THEN 4
               ELSE IF x > 0 THEN (IF ay < ax THEN 1 ELSE IF ay = ax THEN 2 ELSE 3)
               ELSE (IF ay > ax THEN 5 ELSE IF ay = ax THEN 6 ELSE 7)
    IN  (IF y > 0 THEN 1 ELSE -1) * mag * (SC \div 8)

\* -1 / math.pi * atan2(y, x), the angle of the point (x, y) as a fraction of
\* -pi.  It is exact on the eight compass directions; a direction strictly
\* inside an octant is given the middle of that octant, so that no angle
\* strictly between two compass directions is rounded onto one of them.  A
\* zero y is the negative zero that the negation in compute_ratio produces.
NegAtan2OverPi(y, x) ==
    LET ay == Abs(y)
        ax == Abs(x)
        mag == IF ay = 0 THEN (IF x >= 0 THEN 0 ELSE 8)
               ELSE IF x = 0 THEN 4
               ELSE IF x > 0 THEN (IF ay < ax THEN 1 ELSE IF ay = ax THEN 2 ELSE 3)
               ELSE (IF ay > ax THEN 5 ELSE IF ay = ax THEN 6 ELSE 7)
    IN  (IF y > 0 THEN -1 ELSE 1) * mag * (SC \div 8)

(***************************************************************************)
(* Tensors: a shape and the entries in row-major order.  Every operation   *)
(* computes its operands once (it binds them as the only element of a set) *)
(* and returns a tensor whose entries are all computed.                    *)
(***************************************************************************)
RECURSIVE Prod(_)
\* The number of entries of a tensor of shape sh.
Prod(sh) == IF sh = <<>> THEN 1 ELSE Head(sh) * Prod(Tail(sh))

\* The only element of a set of one element.
Once(S) == CHOOSE x \in S : TRUE

T(sh, d) ==
    Once({[k |-> "t", sh |-> z, d |-> SubSeq(d, 1, Prod(z))] : z \in {SubSeq(sh, 1, Len(sh))}})

\* The outcome of an operation that TensorFlow rejects for its operands' shapes.
Err == [k |-> "err", sh |-> <<>>, d |-> <<>>]

\* Python's None, where a tensor is optional.
None == [k |-> "none", sh |-> <<>>, d |-> <<>>]

IsT(a) == a.k = "t"

Rank(a) == Len(a.sh)

\* The number of entries one step along axis j of shape sh skips.
Stride(sh, j) == Prod(SubSeq(sh, j + 1, Len(sh)))

\* The coordinate (from 0) along axis j of entry i (from 1) of shape sh.
Coord(i, sh, j) == ((i - 1) \div Stride(sh, j)) % sh[j]

\* Shape sh with ones in front, up to n axes.
Pad(sh, n) == [j \in 1..n |-> IF j <= n - Len(sh) THEN 1 ELSE sh[j - (n - Len(sh))]]

\* Whether two shapes broadcast, and the shape they broadcast to.
CanBroadcast(s1, s2) ==
    LET n == Max2(Len(s1), Len(s2))
    IN  \A j \in 1..n : \/ Pad(s1, n)[j] = Pad(s2, n)[j]
                        \/ Pad(s1, n)[j] = 1
                        \/ Pad(s2, n)[j] = 1

BShape(s1, s2) ==
    LET n == Max2(Len(s1), Len(s2))
    IN  [j \in 1..n |-> Max2(Pad(s1, n)[j], Pad(s2, n)[j])]

RECURSIVE BOffset(_, _, _, _)
\* The offset in an operand of shape sh of entry i of the broadcast shape osh,
\* summed over the operand's axes j..Len(sh).
BOffset(i, osh, sh, j) ==
    IF j > Len(sh) THEN 0
    ELSE (IF sh[j] = 1 THEN 0
          ELSE Coord(i, osh, Len(osh) - Len(sh) + j) * Stride(sh, j))
         + BOffset(i, osh, sh, j + 1)

\* The elementwise operations of two numbers and of one number.
Op2(op, x, y) ==
    CASE op = "+" -> x + y
      [] op = "-" -> x - y
      [] op = "*" -> MulFix(x, y)
      [] op = "atan2" -> NegAtan2OverPi(x, y)

Op1(op, x) ==
    CASE op = "-" -> -x
      [] op = "/2" -> Half(x)
      [] op = "sin" -> Sin(x)
      [] op = "cos" -> Cos(x)
      [] op = "exp" -> Exp(x)

\* An elementwise operation of two tensors, with broadcasting.
BinOp(op, a, b) ==
    Once({IF ~IsT(x) \/ ~IsT(y) THEN Err
          ELSE IF ~CanBroadcast(x.sh, y.sh) THEN Err
          ELSE Once({T(sh, [i \in 1..Prod(sh) |->
                              Op2(op, x.d[1 + BOffset(i, sh, x.sh, 1)],
                                      y.d[1 + BOffset(i, sh, y.sh, 1)])])
                     : sh \in {SubSeq(BShape(x.sh, y.sh), 1, Max2(Len(x.sh), Len(y.sh)))}})
          : x \in {a}, y \in {b}})

\* An elementwise operation of one tensor.
MapT(op, a) ==
    Once({IF ~IsT(x) THEN Err ELSE T(x.sh, [i \in 1..Len(x.d) |-> Op1(op, x.d[i])])
          : x \in {a}})

Add(a, b) == BinOp("+", a, b)

Sub(a, b) == BinOp("-", a, b)

Mul(a, b) == BinOp("*", a, b)

Neg(a) == MapT("-", a)

HalfT(a) == MapT("/2", a)

SinT(a) == MapT("sin", a)

CosT(a) == MapT("cos", a)

ExpT(a) == MapT("exp", a)

\* A Python number, a tensor of rank 0.
Scalar(v) == T(<<>>, <<v>>)

\* tf.ones(sh) and tf.zeros(sh).
Ones(sh) == T(sh, [i \in 1..Prod(sh) |-> SC])

Zeros(sh) == T(sh, [i \in 1..Prod(sh) |-> 0])

\* Entry (i, j), from 1, of a matrix.
At(a, i, j) == a.d[(i - 1) * a.sh[2] + j]

RECURSIVE DotSum(_, _, _, _, _)
\* The sum over k..n of a[i, k] * b[k, j].
DotSum(a, b, i, j, k) ==
    IF k > a.sh[2] THEN 0
    ELSE MulFix(At(a, i, k), At(b, k, j)) + DotSum(a, b, i, j, k + 1)

\* a @ b (tf.matmul) of two matrices.
MatMul(a, b) ==
    Once({IF ~IsT(x) \/ ~IsT(y) THEN Err
          ELSE IF Rank(x) # 2 \/ Rank(y) # 2 THEN Err
          ELSE IF x.sh[2] # y.sh[1] THEN Err
          ELSE T(<<x.sh[1], y.sh[2]>>,
                 [i \in 1..(x.sh[1] * y.sh[2]) |->
                     DotSum(x, y, 1 + ((i - 1) \div y.sh[2]), 1 + ((i - 1) % y.sh[2]), 1)])
          : x \in {a}, y \in {b}})

Reverse(sh) == [j \in 1..Len(sh) |-> sh[Len(sh) + 1 - j]]

RECURSIVE TrOffset(_, _, _, _)
\* The offset in a tensor of shape sh of entry i of its transpose (shape osh).
TrOffset(i, osh, sh, j) ==
    IF j > Len(sh) THEN 0
    ELSE Coord(i, osh, Len(sh) + 1 - j) * Stride(sh, j) + TrOffset(i, osh, sh, j + 1)

\* tf.transpose(a): the axes in reverse order.
Transpose(a) ==
    Once({IF ~IsT(x) THEN Err
          ELSE Once({T(rs, [i \in 1..Len(x.d) |-> x.d[1 + TrOffset(i, rs, x.sh, 1)]])
                     : rs \in {SubSeq(Reverse(x.sh), 1, Len(x.sh))}})
          : x \in {a}})

\* tf.diag_part(a): a has shape sh \o sh, the result has shape sh.
DiagPart(a) ==
    Once({IF ~IsT(x) THEN Err
          ELSE IF Rank(x) = 0 \/ Rank(x) % 2 # 0 THEN Err
          ELSE IF SubSeq(x.sh, 1, Rank(x) \div 2) # SubSeq(x.sh, Rank(x) \div 2 + 1, Rank(x))
          THEN Err
          ELSE Once({T(s1, [i \in 1..Prod(s1) |-> x.d[(i - 1) * Prod(s1) + i]])
                     : s1 \in {SubSeq(x.sh, 1, Rank(x) \div 2)}})
          : x \in {a}})

\* tf.diag(a): a has shape sh, the result has shape sh \o sh.
Diag(a) ==
    Once({IF ~IsT(x) THEN Err
          ELSE IF Rank(x) = 0 THEN Err
          ELSE T(x.sh \o x.sh,
                 [i \in 1..(Len(x.d) * Len(x.d)) |->
                     IF (i - 1) \div Len(x.d) = (i - 1) % Len(x.d)
                     THEN x.d[1 + ((i - 1) % Len(x.d))] ELSE 0])
          : x \in {a}})

\* tf.reshape(a, sh).
Reshape(a, sh) ==
    Once({IF ~IsT(x) THEN Err
          ELSE IF Prod(sh) # Len(x.d) THEN Err
          ELSE T(sh, x.d)
          : x \in {a}})

\* a[:, None] and a[None, :].
ColOf(a) ==
    Once({IF ~IsT(x) THEN Err
          ELSE IF Rank(x) = 0 THEN Err
          ELSE T(<<x.sh[1], 1>> \o Tail(x.sh), x.d)
          : x \in {a}})

RowOf(a) ==
    Once({IF ~IsT(x) THEN Err
          ELSE IF Rank(x) = 0 THEN Err
          ELSE T(<<1>> \o x.sh, x.d)
          : x \in {a}})

(***************************************************************************)
(* What a call returns: the three tensors (M, S, V) and the calls it made  *)
(* in order, or the exception of the first operation that failed.          *)
(***************************************************************************)
\* The record of a call of compute_action, and of a call of squash_sin.
EvAction(fn, m, s, squash) == [fn |-> fn, m |-> m, s |-> s, squash |-> squash]

EvSquash(m, s, max_action) ==
    [fn |-> "squash_sin", m |-> m, s |-> s, max_action |-> max_action]

\* The record of a call of randomize, and of the call attr.assign(value) on
\* the parameter attr of model number model (0: of the controller itself).
EvRandomize(fn) == [fn |-> fn, m |-> None, s |-> None, squash |-> FALSE]

EvAssign(model, attr, value) ==
    [fn |-> "assign", model |-> model, attr |-> attr, value |-> value]

Raised(calls) == [k |-> "raise", M |-> Err, S |-> Err, V |-> Err, calls |-> calls]

\* What a call without a value returns: the calls it made.
Done(calls) == [k |-> "ok", M |-> None, S |-> None, V |-> None, calls |-> calls]

Ret(M, S, V, calls) ==
    Once({IF IsT(x) /\ IsT(y) /\ IsT(z)
          THEN [k |-> "ok", M |-> x, S |-> y, V |-> z, calls |-> calls]
          ELSE Raised(calls)
          : x \in {M}, y \in {S}, z \in {V}})

(***************************************************************************)
(* squash_sin                                                              *)
(***************************************************************************)
\* Twice the bounds.
SquashBoundTwice(m, max_action) ==
    IF max_action = None THEN Mul(Scalar(2 * SC), Ones(<<1, m.sh[2]>>))
    ELSE Mul(Mul(Scalar(2 * SC), max_action), Ones(<<1, m.sh[2]>>))

\* Lines 22-26: max_action as a row of k bounds.
SquashBound(m, max_action) ==
    IF max_action = None THEN Ones(<<1, m.sh[2]>>)
    ELSE Mul(max_action, Ones(<<1, m.sh[2]>>))

\* The two terms of the covariance in the other order, and the cosine of
\* m^T + m in both.
SquashCovSwapped(m, s, dp) ==
    Once({Once({Sub(Mul(Sub(ExpT(Sub(lq, s)), q), CosT(Add(Transpose(m), m))),
                    Mul(Sub(ExpT(Add(lq, s)), q), CosT(Sub(Transpose(m), m))))
                : q \in {ExpT(lq)}})
          : lq \in {HalfT(Neg(Add(ColOf(dp), RowOf(dp))))}})

\* Lines 30-33: the covariance before it is scaled by the bounds; dp is
\* tf.diag_part(s).
SquashCov(m, s, dp) ==
    Once({Once({Sub(Mul(Sub(ExpT(Add(lq, s)), q), CosT(Sub(Transpose(m), m))),
                    Mul(Sub(ExpT(Sub(lq, s)), q), CosT(Add(Transpose(m), m))))
                : q \in {ExpT(lq)}})
          : lq \in {HalfT(Neg(Add(ColOf(dp), RowOf(dp))))}})

squash_sin(m, s, max_action) ==
    IF ~IsT(m) \/ ~IsT(s) \/ Rank(m) < 2 THEN Raised(<<>>)
    ELSE Once({Ret(Mul(Mul(maxa, ExpT(HalfT(Neg(dp)))), SinT(m)),
                   HalfT(Mul(Mul(maxa, Transpose(maxa)), SquashCov(m, s, dp))),
                   Reshape(Mul(maxa, Diag(Mul(ExpT(HalfT(Neg(dp))), CosT(m)))),
                           <<m.sh[2], m.sh[2]>>),
                   <<>>)
               : maxa \in {SquashBound(m, max_action)}, dp \in {DiagPart(s)}})

(***************************************************************************)
(* LinearController                                                        *)
(***************************************************************************)
\* The parameters of a LinearController (self.W, self.b, self.max_action).
LinearParams(W, b, max_action) == [W |-> W, b |-> b, max_action |-> max_action]

\* Lines 57-60: the return of compute_action from the unsquashed (M, S, V);
\* me records the calls made so far.
SquashIf(squash, M, S, V, max_action, me) ==
    IF ~IsT(M) \/ ~IsT(S) \/ ~IsT(V) THEN Raised(me)
    ELSE IF squash
    THEN Once({Ret(sq.M, sq.S, MatMul(V, sq.V), me \o <<EvSquash(M, S, max_action)>>)
               : sq \in {squash_sin(M, S, max_action)}})
    ELSE Ret(M, S, V, me)

\* The input-output covariance W in place of its transpose.
LinearController_compute_action_untransposed(self, m, s, squash) ==
    Once({SquashIf(squash, M, S, V, self.max_action,
                   <<EvAction("LinearController.compute_action", m, s, squash)>>)
          : M \in {Add(MatMul(m, Transpose(self.W)), self.b)},
            S \in {MatMul(MatMul(self.W, s), Transpose(self.W))},
            V \in {self.W}})

LinearController_compute_action(self, m, s, squash) ==
    Once({SquashIf(squash, M, S, V, self.max_action,
                   <<EvAction("LinearController.compute_action", m, s, squash)>>)
          : M \in {Add(MatMul(m, Transpose(self.W)), self.b)},
            S \in {MatMul(MatMul(self.W, s), Transpose(self.W))},
            V \in {Transpose(self.W)}})

\* A compute_action that keeps the mean it computed in b.
LinearController_after_compute_action_keeping(self, m, s, squash) ==
    [self EXCEPT !.b = Add(MatMul(m, Transpose(self.W)), self.b)]

\* The controller after compute_action: lines 47-60 assign to no attribute of
\* self.
LinearController_after_compute_action(self, m, s, squash) == self

\* randomize: W and b are overwritten by new draws of the same shapes.
LinearController_randomize(self, W, b) == [self EXCEPT !.W = W, !.b = b]

\* The calls randomize makes: lines 65-66.
LinearController_randomize_calls(self, W, b) ==
    <<EvRandomize("LinearController.randomize"), EvAssign(0, "W", W), EvAssign(0, "b", b)>>

(***************************************************************************)
(* RbfController.  Its base class MGPR is not part of the source: of its   *)
(* factorisation and of its predictor only the interface is known.         *)
(***************************************************************************)
\* The parameters of an RbfController: per output model the pseudo-inputs X,
\* the pseudo-outputs (a column of Y), the length-scales and the signal
\* variance; gp names the function of the belief that the predictor computes
\* for these parameters.
RbfParams(X, Y, lengthscales, variance, max_action, gp) ==
    [X |-> X, Y |-> Y, lengthscales |-> lengthscales, variance |-> variance,
     variance_trainable |-> FALSE, max_action |-> max_action, gp |-> gp]

\* MGPR.calculate_factorizations: iK has one n x n matrix and beta one
\* n-vector per output.  The values stand for the factorisation of the
\* pseudo-data.
calculate_factorizations(self) ==
    LET n == self.X.sh[1]
        c == self.Y.sh[2]
    IN  [iK   |-> T(<<c, n, n>>,
                    [i \in 1..(c * n * n) |->
                        IF ((i - 1) \div n) % n = (i - 1) % n
                        THEN SC + self.gp * TabStep ELSE -TabStep]),
         beta |-> T(<<c, n>>,
                    [i \in 1..(c * n) |->
                        At(self.Y, 1 + ((i - 1) % n), 1 + ((i - 1) \div n))])]

\* MGPR.predict_given_factorizations: the moments of the prediction, a
\* function of the belief, of the factorisation it is given and of the
\* parameters.  The values stand for the predictor's: a mean (1 x c), a
\* symmetric covariance (c x c) and an input-output covariance (d x c).
predict_given_factorizations(self, m, s, iK, beta) ==
    IF ~IsT(m) \/ ~IsT(s) \/ ~IsT(iK) \/ ~IsT(beta) THEN Raised(<<>>)
    ELSE IF m.sh # <<1, self.X.sh[2]>> \/ s.sh # <<self.X.sh[2], self.X.sh[2]>>
    THEN Raised(<<>>)
    ELSE Once({Ret(T(<<1, c>>, [o \in 1..c |-> beta.d[1 + (o - 1) * self.X.sh[1]]
                                             + (IF g % 2 = 0 THEN m.d[o] ELSE -m.d[o])
                                             + iK.d[1]]),
                   T(<<c, c>>, [i \in 1..(c * c) |->
                                   IF (i - 1) \div c = (i - 1) % c
                                   THEN SC + At(s, 1 + ((i - 1) % c), 1 + ((i - 1) % c))
                                             \div (g + 1)
                                   ELSE At(s, 1, 2) \div (g + 2)]),
                   T(<<d, c>>, [i \in 1..(d * c) |-> (i + g) * TabStep]),
                   <<>>)
               : c \in {self.Y.sh[2]}, d \in {self.X.sh[2]}, g \in {self.gp}})

\* The jitter 1e-6 of compute_action.
Jitter == 1

EvPredict(m, s, iK, beta) ==
    [fn |-> "predict_given_factorizations", m |-> m, s |-> s, iK |-> iK, beta |-> beta]

\* The record of a call of calculate_factorizations, with what it returned.
EvFactorize(iK, beta) == [fn |-> "calculate_factorizations", iK |-> iK, beta |-> beta]

\* The prediction from the factorisation as it is, iK included.
RbfPredict_with_iK(self, m, s) ==
    Once({Once({[p |-> predict_given_factorizations(self, m, s, iK, f.beta),
                 calls |-> <<EvFactorize(f.iK, f.beta), EvPredict(m, s, iK, f.beta)>>]
                : iK \in {f.iK}})
          : f \in {calculate_factorizations(self)}})

\* Lines 178-179: the factorisation, the zeroed iK and the prediction.
RbfPredict(self, m, s) ==
    Once({Once({[p |-> predict_given_factorizations(self, m, s, iK, f.beta),
                 calls |-> <<EvFactorize(f.iK, f.beta), EvPredict(m, s, iK, f.beta)>>]
                : iK \in {Mul(Scalar(0), f.iK)}})
          : f \in {calculate_factorizations(self)}})

RbfController_compute_action(self, m, s, squash) ==
    Once({IF q.p.k # "ok"
          THEN Raised(<<EvAction("RbfController.compute_action", m, s, squash)>> \o q.calls)
          ELSE SquashIf(squash, q.p.M,
                        Sub(q.p.S, Diag(Sub(self.variance, Scalar(Jitter)))),
                        q.p.V, self.max_action,
                        <<EvAction("RbfController.compute_action", m, s, squash)>> \o q.calls)
          : q \in {RbfPredict(self, m, s)}})

\* The controller after compute_action: lines 172-184 assign to no attribute
\* of self.
RbfController_after_compute_action(self, m, s, squash) == self

\* A randomize that draws the signal variance anew as well.
RbfController_randomize_variance_too(self, X, Y, lengthscales, gp) ==
    [self EXCEPT !.X = X, !.Y = Y, !.lengthscales = lengthscales, !.gp = gp,
                 !.variance = Mul(Scalar(SC + SC \div 10), self.variance)]

\* randomize: the pseudo-inputs, the pseudo-outputs and the length-scales of
\* every model are overwritten; with them the predictor's function changes.
RbfController_randomize(self, X, Y, lengthscales, gp) ==
    [self EXCEPT !.X = X, !.Y = Y, !.lengthscales = lengthscales, !.gp = gp]

\* Column o of a matrix (as a matrix of one column) and row o (as a vector).
ColumnAt(a, o) == T(<<a.sh[1], 1>>, [i \in 1..a.sh[1] |-> At(a, i, o)])

RowAt(a, o) == T(<<a.sh[2]>>, [j \in 1..a.sh[2] |-> At(a, o, j)])

\* The calls randomize makes: for every model in turn, lines 191, 192 and
\* 195.  One X stands for the pseudo-inputs of every model.
RbfController_randomize_calls(self, X, Y, lengthscales, gp) ==
    <<EvRandomize("RbfController.randomize")>>
    \o [j \in 1..(3 * self.Y.sh[2]) |->
          CASE (j - 1) % 3 = 0 -> EvAssign(1 + (j - 1) \div 3, "X", X)
            [] (j - 1) % 3 = 1 -> EvAssign(1 + (j - 1) \div 3, "Y",
                                           ColumnAt(Y, 1 + (j - 1) \div 3))
            [] (j - 1) % 3 = 2 -> EvAssign(1 + (j - 1) \div 3, "lengthscales",
                                           RowAt(lengthscales, 1 + (j - 1) \div 3))]

(***************************************************************************)
(* CombinedController                                                      *)
(***************************************************************************)
\* The parameters of a CombinedController and its two sub-controllers.
CombinedParams(rbc_controller, linear_controller, a, S, zeta, max_action) ==
    [rbc_controller |-> rbc_controller, linear_controller |-> linear_controller,
     a |-> a, S |-> S, zeta |-> zeta, max_action |-> max_action]

\* Line 221: the quadratic form (x - a) S (x - a)^T, a 1 x 1 matrix.
r_raw(self, x) ==
    MatMul(MatMul(Sub(x, self.a), self.S), Transpose(Sub(x, self.a)))

\* A gate centred on r_raw = 1 in place of r_raw = 0.
compute_ratio_centred(self, x) ==
    Once({BinOp("atan2", Mul(Neg(r), self.zeta), Sub(Scalar(SC), Mul(r, r)))
          : r \in {Add(r_raw(self, x), Scalar(SC))}})

compute_ratio(self, x) ==
    Once({BinOp("atan2", Mul(Neg(r), self.zeta), Sub(Scalar(SC), Mul(r, r)))
          : r \in {r_raw(self, x)}})

\* Line 234: the blended mean.
BlendMean(r, M1, M2) == Add(Mul(Sub(Scalar(SC), r), M1), Mul(r, M2))

\* The weighted average of the covariances less the two spread terms.
BlendCovLess(r, M1, S1, M2, S2, M) ==
    Sub(Sub(Add(Mul(Sub(Scalar(SC), r), S1), Mul(r, S2)),
            MatMul(Mul(Sub(Scalar(SC), r), Sub(M1, M)), Transpose(Sub(M1, M)))),
        MatMul(Mul(r, Sub(M2, M)), Transpose(Sub(M2, M))))

\* Line 235: the blended covariance; M is the blended mean.
BlendCov(r, M1, S1, M2, S2, M) ==
    Add(Add(Add(Mul(Sub(Scalar(SC), r), S1), Mul(r, S2)),
            MatMul(Mul(Sub(Scalar(SC), r), Sub(M1, M)), Transpose(Sub(M1, M)))),
        MatMul(Mul(r, Sub(M2, M)), Transpose(Sub(M2, M))))

\* Line 236: the blended input-output covariance.
BlendCross(r, V1, V2) == Add(Mul(Sub(Scalar(SC), r), V1), Mul(r, V2))

\* Lines 234-240: the blend of the two results c1 and c2 with ratio r, and
\* the squashing of the blend.
Blend(self, r, c1, c2, squash, me) ==
    IF ~IsT(r) THEN Raised(me)
    ELSE IF c1.k # "ok" THEN Raised(me \o c1.calls)
    ELSE IF c2.k # "ok" THEN Raised(me \o c1.calls \o c2.calls)
    ELSE Once({SquashIf(squash, M, BlendCov(r, c1.M, c1.S, c2.M, c2.S, M),
                        BlendCross(r, c1.V, c2.V), self.max_action,
                        me \o c1.calls \o c2.calls)
               : M \in {BlendMean(r, c1.M, c2.M)}})

\* The caller's squash flag handed on to the two sub-controllers.
CombinedController_compute_action_handing_on(self, m, s, squash) ==
    Once({Blend(self, r, c1, c2, squash,
                <<EvAction("CombinedController.compute_action", m, s, squash)>>)
          : r \in {compute_ratio(self, m)},
            c1 \in {LinearController_compute_action(self.linear_controller, m, s, squash)},
            c2 \in {RbfController_compute_action(self.rbc_controller, m, s, squash)}})

CombinedController_compute_action(self, m, s, squash) ==
    Once({Blend(self, r, c1, c2, squash,
                <<EvAction("CombinedController.compute_action", m, s, squash)>>)
          : r \in {compute_ratio(self, m)},
            c1 \in {LinearController_compute_action(self.linear_controller, m, s, FALSE)},
            c2 \in {RbfController_compute_action(self.rbc_controller, m, s, FALSE)}})

\* The controller after compute_action: lines 225-240 assign to no attribute
\* of self, and call compute_action of the two sub-controllers.
CombinedController_after_compute_action(self, m, s, squash) ==
    [self EXCEPT
        !.linear_controller =
            LinearController_after_compute_action(self.linear_controller, m, s, FALSE),
        !.rbc_controller =
            RbfController_after_compute_action(self.rbc_controller, m, s, FALSE)]

\* randomize: both sub-controllers are randomized.
CombinedController_randomize(self, W, b, X, Y, lengthscales, gp) ==
    [self EXCEPT
        !.rbc_controller = RbfController_randomize(self.rbc_controller, X, Y, lengthscales, gp),
        !.linear_controller = LinearController_randomize(self.linear_controller, W, b)]

\* A randomize that leaves the affine controller out.
CombinedController_randomize_calls_rbf_only(self, W, b, X, Y, lengthscales, gp) ==
    <<EvRandomize("CombinedController.randomize")>>
    \o RbfController_randomize_calls(self.rbc_controller, X, Y, lengthscales, gp)

\* The calls randomize makes: lines 243-244.
CombinedController_randomize_calls(self, W, b, X, Y, lengthscales, gp) ==
    <<EvRandomize("CombinedController.randomize")>>
    \o RbfController_randomize_calls(self.rbc_controller, X, Y, lengthscales, gp)
    \o LinearController_randomize_calls(self.linear_controller, W, b)

(***************************************************************************)
(* The values the model draws from.                                        *)
(***************************************************************************)
\* The largest number of entries of a belief handed to squash_sin and to a
\* stand-alone LinearController, and the largest control_dim.
MaxDim == 2

\* Means range over MeanUnit * (-MaxMean .. MaxMean), variances over
\* HalfUnit * (0 .. MaxVar).
MaxMean == 2

MaxVar == 2

MeanUnit == 3 * (SC \div 10)

HalfUnit == SC \div 2

MeanVals == {i * MeanUnit : i \in (-MaxMean)..MaxMean}

VarVals == {i * HalfUnit : i \in 0..MaxVar}

OffVals == {-HalfUnit, 0, HalfUnit}

\* A mean of k entries: u at the odd places and v at the even ones.
MeanOf(k, u, v) == T(<<1, k>>, [i \in 1..k |-> IF i % 2 = 1 THEN u ELSE v])

\* A symmetric covariance of k entries: the variances u (odd places) and v
\* (even places), and e off the diagonal.
CovOf(k, u, v, e) ==
    T(<<k, k>>, [i \in 1..(k * k) |->
                    IF (i - 1) \div k # (i - 1) % k THEN e
                    ELSE IF ((i - 1) % k) % 2 = 0 THEN u ELSE v])

\* The beliefs of k entries, and a few of them.
Beliefs(k) ==
    {<<MeanOf(k, u, v), CovOf(k, x, y, e)>> :
        u \in MeanVals, v \in MeanVals, x \in VarVals, y \in VarVals, e \in OffVals}

LinearBeliefs(k) ==
    {<<MeanOf(k, u, v), CovOf(k, x, y, e)>> :
        u \in MeanVals, v \in {0, -HalfUnit}, x \in VarVals, y \in VarVals,
        e \in {0, HalfUnit}}

FewBeliefs(k) ==
    {<<MeanOf(k, u, v), CovOf(k, x, HalfUnit, e)>> :
        u \in {0, HalfUnit, SC} \cup MeanVals, v \in {0, -HalfUnit},
        x \in {0, SC}, e \in {0, HalfUnit}}

\* Beliefs whose mean and covariance do not agree: a mean of two entries with
\* the covariance of one entry, a mean of one entry with the covariance of
\* two, a mean of several rows, a mean without a row axis, a covariance that
\* is not square or not a matrix.
OddBeliefs ==
    {<<T(<<1, 2>>, <<HalfUnit, -HalfUnit>>), T(<<1, 1>>, <<SC>>)>>,
     <<T(<<1, 1>>, <<HalfUnit>>), T(<<2, 2>>, <<SC, 0, 0, HalfUnit>>)>>,
     <<T(<<2, 1>>, <<HalfUnit, 0>>), T(<<1, 1>>, <<SC>>)>>,
     <<T(<<2, 2>>, <<HalfUnit, 0, 0, SC>>), T(<<2, 2>>, <<SC, 0, 0, HalfUnit>>)>>,
     <<T(<<2>>, <<HalfUnit, 0>>), T(<<2, 2>>, <<SC, 0, 0, HalfUnit>>)>>,
     <<T(<<1, 2>>, <<HalfUnit, 0>>), T(<<1, 2>>, <<SC, HalfUnit>>)>>,
     <<T(<<1, 2>>, <<HalfUnit, 0>>), T(<<2>>, <<SC, HalfUnit>>)>>}

\* The number of entries of the mean of a belief (1 when it has no such axis).
Width(m) == IF Rank(m) >= 2 THEN m.sh[2] ELSE 1

\* The bounds squash_sin is given: none, a number, or one bound per entry.
MaxActions(k) ==
    {None, Scalar(2 * SC), T(<<1, k>>, [i \in 1..k |-> i * HalfUnit])}

\* Whether a belief is well formed for a state of n entries: a mean of
\* shape (1, n) and a covariance of shape (n, n).
Consistent(m, s, n) == IsT(m) /\ IsT(s) /\ m.sh = <<1, n>> /\ s.sh = <<n, n>>

IsSymmetric(a) ==
    /\ IsT(a) /\ Rank(a) = 2 /\ a.sh[1] = a.sh[2]
    /\ \A i, j \in 1..a.sh[1] : At(a, i, j) = At(a, j, i)

NonNegDiag(a) == \A i \in 1..a.sh[1] : At(a, i, i) >= 0

\* The members of a set of numbers in increasing order.
Sorted(I) ==
    [k \in 1..Cardinality(I) |-> CHOOSE x \in I : Cardinality({y \in I : y < x}) = k - 1]

Drop(J, k) == SubSeq(J, 1, k - 1) \o SubSeq(J, k + 1, Len(J))

RECURSIVE Det(_, _, _)
RECURSIVE DetRow(_, _, _, _)
\* The determinant of the rows I and columns J of a matrix, expanded along
\* its first row; DetRow is the sum of the expansion from column k on.
Det(a, I, J) == IF I = <<>> THEN SC ELSE DetRow(a, I, J, 1)

DetRow(a, I, J, k) ==
    IF k > Len(J) THEN 0
    ELSE (IF k % 2 = 1 THEN 1 ELSE -1)
            * MulFix(At(a, I[1], J[k]), Det(a, Tail(I), Drop(J, k)))
         + DetRow(a, I, J, k + 1)

\* Positive semidefinite: symmetric with no negative principal minor.
IsPSD(a) ==
    /\ IsSymmetric(a)
    /\ \A I \in SUBSET (1..a.sh[1]) : Det(a, Sorted(I), Sorted(I)) >= 0

(***************************************************************************)
(* State.                                                                  *)
(***************************************************************************)
VARIABLES
    lin,    \* a stand-alone LinearController
    cc,     \* a CombinedController with its two sub-controllers
    call,   \* the call under way or the last call: the function, its arguments
    res,    \* what the last call returned, or the exception it raised
    ratio,  \* what the last call of compute_ratio returned
    pc,     \* "call" while the call is under way, "done" once it has returned,
            \* "session" while calls follow one another
    hist    \* the calls of a session: each with the controller before and after

vars == <<lin, cc, call, res, ratio, pc, hist>>

NoRes == Raised(<<>>)

NoLinear == LinearParams(None, None, None)

NoRbf == RbfParams(None, None, None, None, None, 0)

NoCombined == CombinedParams(NoRbf, NoLinear, None, None, None, None)

(***************************************************************************)
(* Construction.                                                           *)
(***************************************************************************)
\* LinearController.__init__: W (control_dim x state_dim) and b
\* (1 x control_dim) are drawn at random; here W is the leading rows of the
\* identity or a full matrix, and b is zero or not.
WOf(c, d, w) ==
    T(<<c, d>>, [i \in 1..(c * d) |->
                    IF w = 0 THEN (IF (i - 1) \div d = (i - 1) % d THEN SC ELSE 0)
                    ELSE (IF i % 2 = 1 THEN w ELSE -HalfUnit)])

BOf(c, v) == T(<<1, c>>, [i \in 1..c |-> i * v])

LinearControllers(d, c, max_action) ==
    {LinearParams(WOf(c, d, w), BOf(c, v), max_action) :
        w \in {0, HalfUnit + MeanUnit}, v \in {0, MeanUnit}}

\* The number of basis functions of an RbfController.
NumBasis == 2

\* RbfController.__init__: the pseudo-inputs X (n x state_dim) and the
\* pseudo-outputs Y (n x control_dim) are drawn at random, the length-scales
\* are ones and the signal variance of every output is set to 1.0.
XOf(n, d, x) == T(<<n, d>>, [i \in 1..(n * d) |-> IF i % 3 = 1 THEN x ELSE x - i * MeanUnit])

YOf(n, c, y) == T(<<n, c>>, [i \in 1..(n * c) |-> IF i % 2 = 1 THEN y ELSE -y])

RbfControllers(d, c, max_action) ==
    {RbfParams(XOf(NumBasis, d, SC), YOf(NumBasis, c, y), Ones(<<c, d>>),
               T(<<c>>, [i \in 1..c |-> SC]), max_action, g) :
        y \in {MeanUnit \div 2}, g \in 0..1}

\* The state_dim of a CombinedController: __init__ builds S from a 3 x 3
\* identity.
StateDim == 3

\* CombinedController.__init__: the two sub-controllers with the same
\* dimensions and bound, the location a (zeros when none is given), the
\* diagonal positive matrix S and zeta = 0.5.
DiagOf(d, u, v) ==
    T(<<d, d>>, [i \in 1..(d * d) |->
                    IF (i - 1) \div d # (i - 1) % d THEN 0
                    ELSE IF ((i - 1) % d) % 2 = 0 THEN u ELSE v])

\* The locations a: zeros as constructed, or a row assigned to the parameter a
\* afterwards.
Locations == {Zeros(<<1, StateDim>>), MeanOf(StateDim, SC, 0)}

Shapes == {DiagOf(StateDim, SC, SC), DiagOf(StateDim, HalfUnit, 2 * SC)}

CombinedControllers(c, max_action) ==
    {CombinedParams(r, l, a, DiagOf(StateDim, SC, SC), Scalar(HalfUnit), max_action) :
        r \in RbfControllers(StateDim, c, max_action),
        l \in {x \in LinearControllers(StateDim, c, max_action) : x.b.d[1] # 0},
        a \in Locations}

\* A call CombinedController(state_dim, control_dim, num_basis_functions,
\* ...) with its keyword arguments: controller_location and max_action (None
\* when omitted) and whether a keyword W is given; rbc and lin are the
\* sub-controllers the call would draw.
EvInit(control_dim, controller_location, has_W, max_action, rbf, linear) ==
    [fn |-> "CombinedController.__init__", state_dim |-> StateDim,
     control_dim |-> control_dim, num_basis_functions |-> NumBasis,
     controller_location |-> controller_location, has_W |-> has_W,
     max_action |-> max_action, rbc |-> rbf, lin |-> linear]

\* A call that raises the exception kind.
RaisedAs(kind) == [Raised(<<>>) EXCEPT !.k = kind]

\* Line 207, if controller_location == None: true for None; for an array
\* the comparison is made entry by entry, and the truth value of an array
\* of more than one entry raises ValueError.
LocationIsNone(controller_location) ==
    IF controller_location = None THEN "True"
    ELSE IF Prod(controller_location.sh) > 1 THEN "ValueError"
    ELSE "False"

\* CombinedController.__init__: the signature of line 205 has no parameter
\* W, so a call with the keyword W raises TypeError before the body runs.
CombinedController_init(kw) ==
    IF kw.has_W THEN [res |-> RaisedAs("TypeError"), self |-> NoCombined]
    ELSE IF LocationIsNone(kw.controller_location) = "ValueError"
    THEN [res |-> RaisedAs("ValueError"), self |-> NoCombined]
    ELSE [res  |-> Done(<<>>),
          self |-> CombinedParams(kw.rbc, kw.lin,
                                  IF LocationIsNone(kw.controller_location) = "True"
                                  THEN Zeros(<<1, kw.state_dim>>)
                                  ELSE kw.controller_location,
                                  DiagOf(StateDim, SC, SC), Scalar(HalfUnit), kw.max_action)]

\* compute_ratio alone: S and zeta may have been trained to other positive
\* values.
Gates ==
    {CombinedParams(NoRbf, NoLinear, a, S, Scalar(z), None) :
        a \in Locations, S \in Shapes, z \in {HalfUnit, 3 * HalfUnit}}

EvRatio(x) == [fn |-> "compute_ratio", m |-> x]

(***************************************************************************)
(* One call: the call is drawn, then made.                                 *)
(***************************************************************************)
InitSquash ==
    /\ lin = NoLinear
    /\ cc = NoCombined
    /\ \E k \in 1..MaxDim :
          call \in {EvSquash(b[1], b[2], ma) :
                      b \in {x \in OddBeliefs : Width(x[1]) = k} \cup Beliefs(k),
                      ma \in MaxActions(k)}
    /\ res = NoRes
    /\ ratio = None
    /\ pc = "call"
    /\ hist = <<>>

InitLinear ==
    /\ \E d \in 1..MaxDim, c \in 1..MaxDim :
          /\ lin \in LinearControllers(d, c, Scalar(2 * SC))
          /\ call \in {EvAction("LinearController.compute_action", b[1], b[2], sq) :
                          b \in OddBeliefs \cup LinearBeliefs(d), sq \in BOOLEAN}
    /\ cc = NoCombined
    /\ res = NoRes
    /\ ratio = None
    /\ pc = "call"
    /\ hist = <<>>

InitRatio ==
    /\ lin = NoLinear
    /\ cc \in Gates
    /\ call \in {EvRatio(Add(cc.a, MeanOf(StateDim, u * HalfUnit, v * HalfUnit))) :
                    u \in 0..MaxMean, v \in 0..MaxMean}
    /\ res = NoRes
    /\ ratio = None
    /\ pc = "call"
    /\ hist = <<>>

InitCombined ==
    /\ lin = NoLinear
    /\ \E c \in 1..MaxDim, ma \in {None, Scalar(2 * SC)} :
          cc \in CombinedControllers(c, ma)
    /\ call \in {EvAction(fn, b[1], b[2], sq) :
                    fn \in {"CombinedController.compute_action",
                            "RbfController.compute_action"},
                    b \in FewBeliefs(StateDim), sq \in BOOLEAN}
    /\ res = NoRes
    /\ ratio = None
    /\ pc = "call"
    /\ hist = <<>>

ApplySquash ==
    /\ pc = "call"
    /\ call.fn = "squash_sin"
    /\ res' = squash_sin(call.m, call.s, call.max_action)
    /\ pc' = "done"
    /\ UNCHANGED <<lin, cc, call, ratio, hist>>

ApplyLinear ==
    /\ pc = "call"
    /\ call.fn = "LinearController.compute_action"
    /\ res' = LinearController_compute_action(lin, call.m, call.s, call.squash)
    /\ lin' = LinearController_after_compute_action(lin, call.m, call.s, call.squash)
    /\ pc' = "done"
    /\ UNCHANGED <<cc, call, ratio, hist>>

ApplyRatio ==
    /\ pc = "call"
    /\ call.fn = "compute_ratio"
    /\ ratio' = compute_ratio(cc, call.m)
    /\ pc' = "done"
    /\ UNCHANGED <<lin, cc, call, res, hist>>

ApplyRbf ==
    /\ pc = "call"
    /\ call.fn = "RbfController.compute_action"
    /\ res' = RbfController_compute_action(cc.rbc_controller, call.m, call.s, call.squash)
    /\ cc' = [cc EXCEPT !.rbc_controller =
                 RbfController_after_compute_action(cc.rbc_controller, call.m, call.s,
                                                    call.squash)]
    /\ pc' = "done"
    /\ UNCHANGED <<lin, call, ratio, hist>>

ApplyCombined ==
    /\ pc = "call"
    /\ call.fn = "CombinedController.compute_action"
    /\ res' = CombinedController_compute_action(cc, call.m, call.s, call.squash)
    /\ cc' = CombinedController_after_compute_action(cc, call.m, call.s, call.squash)
    /\ pc' = "done"
    /\ UNCHANGED <<lin, call, ratio, hist>>

(***************************************************************************)
(* A session: calls of compute_action and of randomize on one              *)
(* CombinedController and on its two sub-controllers, one after another.   *)
(***************************************************************************)
\* The largest number of calls of a session.
MaxCalls == 3

\* The beliefs of a session, and the calls made on a sub-controller alone: a
\* belief and the squash flag.
SessionBeliefs ==
    {<<MeanOf(StateDim, SC, 0), CovOf(StateDim, SC, HalfUnit, 0)>>,
     <<MeanOf(StateDim, HalfUnit, -HalfUnit), CovOf(StateDim, 0, HalfUnit, HalfUnit)>>}

SessionCalls ==
    {<<MeanOf(StateDim, SC, 0), CovOf(StateDim, SC, HalfUnit, 0), FALSE>>,
     <<MeanOf(StateDim, HalfUnit, -HalfUnit), CovOf(StateDim, 0, HalfUnit, HalfUnit), TRUE>>}

IsComputeAction(c) ==
    c.fn \in {"LinearController.compute_action", "RbfController.compute_action",
              "CombinedController.compute_action"}

InitSession ==
    /\ lin = NoLinear
    /\ \E c \in 1..MaxDim :
          cc \in {x \in CombinedControllers(c, Scalar(2 * SC)) :
                     /\ x.a = Zeros(<<1, StateDim>>)
                     /\ x.rbc_controller.gp = 0
                     /\ x.linear_controller.W = WOf(c, StateDim, 0)}
    /\ call = EvRandomize("__init__")
    /\ res = NoRes
    /\ ratio = None
    /\ pc = "session"
    /\ hist = <<>>

\* One call of the session: it returns r and leaves the controller after.
Called(c, r, after) ==
    /\ pc = "session"
    /\ Len(hist) < MaxCalls
    /\ call' = c
    /\ res' = r
    /\ cc' = after
    /\ hist' = Append(hist, [call |-> c, res |-> r, before |-> cc, after |-> after])
    /\ UNCHANGED <<lin, ratio, pc>>

SessionLinear ==
    \E b \in SessionCalls :
        Called(EvAction("LinearController.compute_action", b[1], b[2], b[3]),
               LinearController_compute_action(cc.linear_controller, b[1], b[2], b[3]),
               [cc EXCEPT !.linear_controller =
                   LinearController_after_compute_action(cc.linear_controller,
                                                         b[1], b[2], b[3])])

SessionRbf ==
    \E b \in SessionCalls :
        Called(EvAction("RbfController.compute_action", b[1], b[2], b[3]),
               RbfController_compute_action(cc.rbc_controller, b[1], b[2], b[3]),
               [cc EXCEPT !.rbc_controller =
                   RbfController_after_compute_action(cc.rbc_controller, b[1], b[2], b[3])])

SessionCombined ==
    \E b \in SessionBeliefs, sq \in BOOLEAN :
        Called(EvAction("CombinedController.compute_action", b[1], b[2], sq),
               CombinedController_compute_action(cc, b[1], b[2], sq),
               CombinedController_after_compute_action(cc, b[1], b[2], sq))

\* The draws of randomize: a full W and a non-zero b of the same shapes, new
\* pseudo-data and length-scales of the same shapes.
SessionRandomizeLinear ==
    \E W \in {WOf(cc.linear_controller.W.sh[1], StateDim, SC)},
       b \in {BOf(cc.linear_controller.W.sh[1], HalfUnit)} :
        Called(EvRandomize("LinearController.randomize"),
               Done(LinearController_randomize_calls(cc.linear_controller, W, b)),
               [cc EXCEPT !.linear_controller =
                   LinearController_randomize(cc.linear_controller, W, b)])

SessionRandomizeRbf ==
    \E X \in {XOf(NumBasis, StateDim, HalfUnit)},
       Y \in {YOf(NumBasis, cc.rbc_controller.Y.sh[2], MeanUnit)},
       ls \in {Mul(Scalar(2 * SC), cc.rbc_controller.lengthscales)} :
        Called(EvRandomize("RbfController.randomize"),
               Done(RbfController_randomize_calls(cc.rbc_controller, X, Y, ls, 1)),
               [cc EXCEPT !.rbc_controller =
                   RbfController_randomize(cc.rbc_controller, X, Y, ls, 1)])

SessionRandomizeCombined ==
    \E W \in {WOf(cc.linear_controller.W.sh[1], StateDim, HalfUnit)},
       b \in {BOf(cc.linear_controller.W.sh[1], SC)},
       X \in {XOf(NumBasis, StateDim, 0)},
       Y \in {YOf(NumBasis, cc.rbc_controller.Y.sh[2], HalfUnit)},
       ls \in {Ones(cc.rbc_controller.lengthscales.sh)} :
        Called(EvRandomize("CombinedController.randomize"),
               Done(CombinedController_randomize_calls(cc, W, b, X, Y, ls, 1)),
               CombinedController_randomize(cc, W, b, X, Y, ls, 1))

NextSession ==
    \/ SessionLinear
    \/ SessionRbf
    \/ SessionCombined
    \/ SessionRandomizeLinear
    \/ SessionRandomizeRbf
    \/ SessionRandomizeCombined

SpecSession == InitSession /\ [][NextSession]_vars

(***************************************************************************)
(* Construction of a CombinedController.                                   *)
(***************************************************************************)
\* The locations a caller supplies: none, the vector of three entries of the
\* robustness test, a row of three entries.
SuppliedLocations == {None, T(<<StateDim>>, <<SC, 0, 0>>), MeanOf(StateDim, SC, 0)}

InitConstruct ==
    /\ lin = NoLinear
    /\ cc = NoCombined
    /\ \E c \in 1..MaxDim, ma \in {None, Scalar(2 * SC)} :
          call \in {EvInit(c, loc, w, ma, r, l) :
                      loc \in SuppliedLocations, w \in BOOLEAN,
                      r \in RbfControllers(StateDim, c, ma),
                      l \in LinearControllers(StateDim, c, ma)}
    /\ res = NoRes
    /\ ratio = None
    /\ pc = "new"
    /\ hist = <<>>

Construct ==
    /\ pc = "new"
    /\ call.fn = "CombinedController.__init__"
    /\ res' = CombinedController_init(call).res
    /\ cc' = CombinedController_init(call).self
    /\ pc' = "done"
    /\ UNCHANGED <<lin, call, ratio, hist>>

SpecConstruct == InitConstruct /\ [][Construct]_vars

\* squash_sin on its own.
SpecSquash == InitSquash /\ [][ApplySquash]_vars

\* A stand-alone LinearController.
SpecLinear == InitLinear /\ [][ApplyLinear]_vars

\* The gate of a CombinedController.
SpecRatio == InitRatio /\ [][ApplyRatio]_vars

\* A CombinedController and its RbfController.
Init == InitCombined

Next == ApplyCombined \/ ApplyRbf

Spec == Init /\ [][Next]_vars

(***************************************************************************)
(* The gate, under SpecRatio.                                              *)
(***************************************************************************)
RatioDone == pc = "done" /\ call.fn = "compute_ratio"

\* C1 as stated: whenever the quadratic form r_raw is 0, that is when the
\* state mean is the location a, compute_ratio returns exactly 0.5, whatever
\* zeta is.
C1_HalfAtLocation ==
    (RatioDone /\ r_raw(cc, call.m).d = <<0>>) => ratio.d = <<HalfUnit>>

\* C1: whenever the quadratic form r_raw is 0, that is when the state mean is
\* the location a, compute_ratio returns exactly 0, whatever zeta is; it
\* returns exactly 0.5 whenever r_raw is 1.
C1_ZeroAtLocation ==
    RatioDone =>
        /\ r_raw(cc, call.m).d = <<0>> => ratio = T(<<1, 1>>, <<0>>)
        /\ call.m = cc.a => r_raw(cc, call.m).d = <<0>>
        /\ r_raw(cc, call.m).d = <<SC>> => ratio = T(<<1, 1>>, <<HalfUnit>>)

\* compute_ratio has returned for a state mean equal to a location a that is
\* not the origin, with a zeta that is not the initial 0.5.
C1_Witness ==
    /\ RatioDone
    /\ call.m = cc.a
    /\ cc.a # Zeros(<<1, StateDim>>)
    /\ cc.zeta # Scalar(HalfUnit)
    /\ ratio.d = <<0>>

\* C2 as stated: for every state mean, shape matrix and zeta, compute_ratio
\* returns a number strictly between 0 and 1.
C2_StrictlyInside ==
    RatioDone => (IsT(ratio) /\ Len(ratio.d) = 1 /\ 0 < ratio.d[1] /\ ratio.d[1] < SC)

\* C2: for every state mean, shape matrix and zeta, compute_ratio returns one
\* number that is at least 0 and less than 1; it is 0 exactly when the
\* quadratic form r_raw is 0.
C2_ZeroOrInside ==
    RatioDone =>
        /\ IsT(ratio) /\ Len(ratio.d) = 1
        /\ 0 <= ratio.d[1] /\ ratio.d[1] < SC
        /\ ratio.d[1] = 0 <=> r_raw(cc, call.m).d = <<0>>

\* compute_ratio has returned more than 0.5 for a state mean away from a,
\* with a shape matrix that is not the identity.
C2_Witness ==
    /\ RatioDone
    /\ call.m # cc.a
    /\ cc.S # DiagOf(StateDim, SC, SC)
    /\ ratio.d[1] > HalfUnit
    /\ ratio.d[1] < SC

(***************************************************************************)
(* squash_sin, under SpecSquash.                                           *)
(***************************************************************************)
SquashDone == pc = "done" /\ call.fn = "squash_sin"

\* The bound of entry i: 1 when max_action is absent, the number when it is
\* one number, its entry i otherwise.
BoundAt(max_action, i) ==
    IF max_action = None THEN SC
    ELSE IF Rank(max_action) = 0 THEN max_action.d[1]
    ELSE max_action.d[i]

\* C8 as stated: a call of squash_sin whose mean and covariance do not agree
\* in shape raises; it returns no result.
C8_MismatchRaises ==
    (SquashDone /\ ~Consistent(call.m, call.s, Width(call.m))) => res.k = "raise"

\* C9: for a belief whose covariance has no negative diagonal entry and for
\* positive bounds (1 each when max_action is absent), every entry i of the
\* mean squash_sin returns lies between -bound i and +bound i.
C9_MeanWithinBound ==
    (SquashDone /\ Consistent(call.m, call.s, Width(call.m)) /\ NonNegDiag(call.s)) =>
        /\ res.k = "ok"
        /\ res.M.sh = call.m.sh
        /\ \A i \in 1..Width(call.m) :
              /\ BoundAt(call.max_action, i) > 0
              /\ Abs(res.M.d[i]) <= BoundAt(call.max_action, i)

\* squash_sin has returned a mean of two entries under two different bounds:
\* the second entry is beyond the bound of the first, the first is negative.
C9_Witness ==
    /\ SquashDone
    /\ Consistent(call.m, call.s, 2)
    /\ call.max_action = T(<<1, 2>>, <<HalfUnit, SC>>)
    /\ At(call.s, 1, 1) > 0
    /\ res.k = "ok"
    /\ res.M.d[2] > HalfUnit
    /\ res.M.d[1] < 0

\* C10: for a belief with a symmetric positive semidefinite covariance, the
\* covariance squash_sin returns is symmetric and has no negative diagonal
\* entry.
C10_CovSymmetric ==
    (SquashDone /\ Consistent(call.m, call.s, Width(call.m)) /\ IsPSD(call.s)) =>
        /\ res.k = "ok"
        /\ res.S.sh = call.s.sh
        /\ IsSymmetric(res.S)
        /\ NonNegDiag(res.S)

\* squash_sin has returned for a mean of two different entries and a positive
\* semidefinite covariance with correlation: the covariance returned has a
\* non-zero entry off the diagonal and a positive diagonal.
C10_Witness ==
    /\ SquashDone
    /\ Consistent(call.m, call.s, 2)
    /\ IsPSD(call.s)
    /\ call.m.d[1] # call.m.d[2]
    /\ At(call.s, 1, 2) # 0
    /\ res.k = "ok"
    /\ At(res.S, 1, 2) # 0
    /\ At(res.S, 1, 1) > 0 /\ At(res.S, 2, 2) > 0

(***************************************************************************)
(* A stand-alone LinearController, under SpecLinear.                       *)
(***************************************************************************)
LinearDone == pc = "done" /\ call.fn = "LinearController.compute_action"

RECURSIVE SumTo(_, _)
\* f[1] + ... + f[n].
SumTo(f, n) == IF n = 0 THEN 0 ELSE f[n] + SumTo(f, n - 1)

\* Entry (o, l) of W cov_s, and entry (o, p) of W cov_s W^T.
WCov(W, s, o, l) == SumTo([j \in 1..W.sh[2] |-> MulFix(At(W, o, j), At(s, j, l))], W.sh[2])

WCovW(W, s, o, p) ==
    SumTo([l \in 1..W.sh[2] |-> MulFix(WCov(W, s, o, l), At(W, p, l))], W.sh[2])

C5_Scenario ==
    /\ LinearDone
    /\ ~call.squash
    /\ lin.W = T(<<1, 2>>, <<SC, 0>>)
    /\ lin.b = T(<<1, 1>>, <<0>>)
    /\ call.m = T(<<1, 2>>, <<0, 0>>)
    /\ call.s = T(<<2, 2>>, <<SC, 0, 0, SC>>)
    /\ res.k = "ok"

(***************************************************************************)
(* A CombinedController, under Spec.                                       *)
(***************************************************************************)
CombinedDone == pc = "done" /\ call.fn = "CombinedController.compute_action"

\* The ratio and the unsquashed results of the two sub-controllers for the
\* belief of the call: 1 is the LinearController, 2 the RbfController.
Ratio == compute_ratio(cc, call.m)

Part1 == LinearController_compute_action(cc.linear_controller, call.m, call.s, FALSE)

Part2 == RbfController_compute_action(cc.rbc_controller, call.m, call.s, FALSE)

\* The moments of the mixture of the two results with weights 1 - Ratio and
\* Ratio; w (d^T d) is the outer product of the row d with itself, weighted.
MixMean == Add(Mul(Sub(Scalar(SC), Ratio), Part1.M), Mul(Ratio, Part2.M))

MixAverage == Add(Mul(Sub(Scalar(SC), Ratio), Part1.S), Mul(Ratio, Part2.S))

Spread(w, d) == MatMul(Transpose(Mul(w, d)), d)

MixCov ==
    Add(Add(MixAverage, Spread(Sub(Scalar(SC), Ratio), Sub(Part1.M, MixMean))),
        Spread(Ratio, Sub(Part2.M, MixMean)))

MixCross == Add(Mul(Sub(Scalar(SC), Ratio), Part1.V), Mul(Ratio, Part2.V))

\* C3 as stated: compute_action with squash = false returns the moments of
\* the mixture: the mean MixMean, the covariance MixCov with the outer
\* products of the mean differences, and the cross-covariance MixCross.
C3_MixtureMoments ==
    (CombinedDone /\ ~call.squash) =>
        /\ res.k = "ok"
        /\ res.M = MixMean
        /\ res.S = MixCov
        /\ res.V = MixCross

\* C4: the covariance compute_action returns with squash = false, less the
\* weighted average of the covariances of the two sub-controllers, is
\* positive semidefinite.
C4_CovDominatesAverage ==
    (CombinedDone /\ ~call.squash) =>
        /\ res.k = "ok"
        /\ res.S.sh = MixAverage.sh
        /\ IsPSD(Sub(res.S, MixAverage))

\* compute_action with squash = false has returned for control_dim 2, with
\* a ratio that is neither 0 nor 1 and sub-controllers whose means differ:
\* the covariance exceeds the weighted average on the diagonal.
C4_Witness ==
    /\ CombinedDone
    /\ ~call.squash
    /\ res.k = "ok"
    /\ res.S.sh = <<2, 2>>
    /\ Ratio.d[1] > 0 /\ Ratio.d[1] < SC
    /\ Part1.M # Part2.M
    /\ At(Sub(res.S, MixAverage), 1, 1) > 0

IsSquashSin(e) == e.fn = "squash_sin"

\* C6: one call of compute_action calls compute_action of the
\* LinearController and of the RbfController once each with squash = false,
\* whatever its own flag; with squash = true it then calls squash_sin once,
\* on the blend of their unsquashed results, and returns the mean and the
\* covariance of squash_sin and the blended cross-covariance times the
\* cross-covariance of squash_sin; with squash = false it never calls
\* squash_sin and returns the blend.
C6_SquashOnceAfterBlend ==
    CombinedDone =>
        /\ res.k = "ok"
        /\ SelectSeq(res.calls, IsComputeAction) =
              <<EvAction("CombinedController.compute_action", call.m, call.s, call.squash),
                EvAction("LinearController.compute_action", call.m, call.s, FALSE),
                EvAction("RbfController.compute_action", call.m, call.s, FALSE)>>
        /\ call.squash =>
              /\ SelectSeq(res.calls, IsSquashSin) =
                    <<EvSquash(BlendMean(Ratio, Part1.M, Part2.M),
                               BlendCov(Ratio, Part1.M, Part1.S, Part2.M, Part2.S,
                                        BlendMean(Ratio, Part1.M, Part2.M)),
                               cc.max_action)>>
              /\ IsSquashSin(res.calls[Len(res.calls)])
              /\ res.M = squash_sin(res.calls[Len(res.calls)].m, res.calls[Len(res.calls)].s,
                                    cc.max_action).M
              /\ res.S = squash_sin(res.calls[Len(res.calls)].m, res.calls[Len(res.calls)].s,
                                    cc.max_action).S
              /\ res.V = MatMul(BlendCross(Ratio, Part1.V, Part2.V),
                                squash_sin(res.calls[Len(res.calls)].m,
                                           res.calls[Len(res.calls)].s, cc.max_action).V)
        /\ ~call.squash =>
              /\ SelectSeq(res.calls, IsSquashSin) = <<>>
              /\ res.M = BlendMean(Ratio, Part1.M, Part2.M)
              /\ res.V = BlendCross(Ratio, Part1.V, Part2.V)

\* compute_action with squash = true has returned for control_dim 2 and a
\* bound: it called squash_sin last, and the squashed mean differs from the
\* blended mean.
C6_Witness ==
    /\ CombinedDone
    /\ call.squash
    /\ cc.max_action # None
    /\ res.k = "ok"
    /\ res.M.sh = <<1, 2>>
    /\ IsSquashSin(res.calls[Len(res.calls)])
    /\ res.M # res.calls[Len(res.calls)].m

(***************************************************************************)
(* A session of calls, under SpecSession.                                  *)
(***************************************************************************)
\* C7: a call of compute_action on any of the three controllers leaves every
\* parameter of every controller as it was; a later call with the same belief,
\* the same flag and the same parameters returns the same result; and when
\* the same call returns another result later, a randomize came in between.
C7_NoCallToCallState ==
    \A i \in 1..Len(hist) :
        IsComputeAction(hist[i].call) =>
            /\ hist[i].after = hist[i].before
            /\ \A j \in (i + 1)..Len(hist) :
                  /\ (hist[j].call = hist[i].call /\ hist[j].before = hist[i].before)
                        => hist[j].res = hist[i].res
                  /\ (hist[j].call = hist[i].call /\ hist[j].res # hist[i].res)
                        => \E k \in (i + 1)..(j - 1) : ~IsComputeAction(hist[k].call)

\* Three calls of compute_action without a randomize: the third repeats the
\* first, on the CombinedController, after a different call on a
\* sub-controller, and returns what the first returned.
C7_Witness ==
    /\ Len(hist) = 3
    /\ hist[1].call.fn = "CombinedController.compute_action"
    /\ IsComputeAction(hist[2].call)
    /\ hist[2].call.fn # hist[1].call.fn
    /\ hist[2].call.m # hist[1].call.m
    /\ hist[3].call = hist[1].call
    /\ hist[1].res.k = "ok"
    /\ hist[3].res = hist[1].res

\* The same call before and after a randomize returns two different results.
C7_RandomizeChanges ==
    /\ Len(hist) = 3
    /\ IsComputeAction(hist[1].call)
    /\ ~IsComputeAction(hist[2].call)
    /\ hist[3].call = hist[1].call
    /\ hist[1].res.k = "ok" /\ hist[3].res.k = "ok"
    /\ hist[3].res # hist[1].res

(***************************************************************************)
(* randomize, under SpecSession.                                           *)
(***************************************************************************)
\* The places in a sequence of calls where value is assigned to the
\* parameter attr of model number model.
Assigns(calls, model, attr) ==
    {k \in 1..Len(calls) :
        calls[k].fn = "assign" /\ calls[k].model = model /\ calls[k].attr = attr}

\* The places in a sequence of calls where fn is called.
CallsOf(calls, fn) == {k \in 1..Len(calls) : calls[k].fn = fn}

\* C11: every call of a session leaves the signal variance of every model
\* of the RbfController at 1.0 and not trainable; a call of
\* RbfController.randomize assigns, for every model, the pseudo-inputs, the
\* pseudo-outputs and the length-scales once each, the values assigned are
\* the values afterwards, and the shapes are the shapes before.
C11_RandomizeKeepsVariance ==
    \A i \in 1..Len(hist) :
        /\ hist[i].after.rbc_controller.variance = hist[i].before.rbc_controller.variance
        /\ hist[i].after.rbc_controller.variance
              = T(<<hist[i].after.rbc_controller.Y.sh[2]>>,
                  [o \in 1..hist[i].after.rbc_controller.Y.sh[2] |-> SC])
        /\ ~hist[i].after.rbc_controller.variance_trainable
        /\ CallsOf(hist[i].res.calls, "RbfController.randomize") # {} =>
              /\ Cardinality(CallsOf(hist[i].res.calls, "RbfController.randomize")) = 1
              /\ hist[i].after.rbc_controller.X.sh = hist[i].before.rbc_controller.X.sh
              /\ hist[i].after.rbc_controller.Y.sh = hist[i].before.rbc_controller.Y.sh
              /\ hist[i].after.rbc_controller.lengthscales.sh
                    = hist[i].before.rbc_controller.lengthscales.sh
              /\ \A o \in 1..hist[i].before.rbc_controller.Y.sh[2] :
                    /\ Cardinality(Assigns(hist[i].res.calls, o, "X")) = 1
                    /\ Cardinality(Assigns(hist[i].res.calls, o, "Y")) = 1
                    /\ Cardinality(Assigns(hist[i].res.calls, o, "lengthscales")) = 1
                    /\ \A k \in Assigns(hist[i].res.calls, o, "X") :
                          hist[i].after.rbc_controller.X = hist[i].res.calls[k].value
                    /\ \A k \in Assigns(hist[i].res.calls, o, "Y") :
                          ColumnAt(hist[i].after.rbc_controller.Y, o)
                             = hist[i].res.calls[k].value
                    /\ \A k \in Assigns(hist[i].res.calls, o, "lengthscales") :
                          RowAt(hist[i].after.rbc_controller.lengthscales, o)
                             = hist[i].res.calls[k].value

\* RbfController.randomize has been called three times on a controller of
\* two models: each call changed the length-scales, the first changed the
\* pseudo-inputs and the pseudo-outputs, and the signal variance is 1.0.
C11_Witness ==
    /\ Len(hist) = 3
    /\ \A i \in 1..3 :
          /\ hist[i].call.fn = "RbfController.randomize"
          /\ hist[i].after.rbc_controller.lengthscales
                # hist[i].before.rbc_controller.lengthscales
    /\ hist[1].after.rbc_controller.X # hist[1].before.rbc_controller.X
    /\ hist[1].after.rbc_controller.Y # hist[1].before.rbc_controller.Y
    /\ cc.rbc_controller.variance = T(<<2>>, <<SC, SC>>)
    /\ ~cc.rbc_controller.variance_trainable

\* C14: a call of CombinedController.randomize calls randomize of the
\* RbfController once and randomize of the LinearController once, the values
\* these assign are the parameters of the sub-controllers afterwards, and
\* the gating parameters a, S and zeta and the bound max_action are what
\* they were before the call.
C14_RandomizeDelegates ==
    \A i \in 1..Len(hist) :
        hist[i].call.fn = "CombinedController.randomize" =>
            /\ hist[i].res.k = "ok"
            /\ Cardinality(CallsOf(hist[i].res.calls, "RbfController.randomize")) = 1
            /\ Cardinality(CallsOf(hist[i].res.calls, "LinearController.randomize")) = 1
            /\ Cardinality(CallsOf(hist[i].res.calls, "CombinedController.randomize")) = 1
            /\ \A k \in Assigns(hist[i].res.calls, 0, "W") :
                  hist[i].after.linear_controller.W = hist[i].res.calls[k].value
            /\ \A k \in Assigns(hist[i].res.calls, 0, "b") :
                  hist[i].after.linear_controller.b = hist[i].res.calls[k].value
            /\ \A k \in Assigns(hist[i].res.calls, 1, "X") :
                  hist[i].after.rbc_controller.X = hist[i].res.calls[k].value
            /\ Assigns(hist[i].res.calls, 0, "W") # {}
            /\ Assigns(hist[i].res.calls, 1, "X") # {}
            /\ hist[i].after.a = hist[i].before.a
            /\ hist[i].after.S = hist[i].before.S
            /\ hist[i].after.zeta = hist[i].before.zeta
            /\ hist[i].after.max_action = hist[i].before.max_action

\* A CombinedController with a bound has computed an action and has then
\* been randomized: both sub-controllers changed, the location did not.
C14_Witness ==
    /\ Len(hist) >= 2
    /\ hist[1].call.fn = "CombinedController.compute_action"
    /\ hist[2].call.fn = "CombinedController.randomize"
    /\ hist[2].before.max_action # None
    /\ hist[2].res.k = "ok"
    /\ hist[2].after.rbc_controller # hist[2].before.rbc_controller
    /\ hist[2].after.linear_controller # hist[2].before.linear_controller
    /\ hist[2].after.a = hist[2].before.a

(***************************************************************************)
(* Construction, under SpecConstruct.                                      *)
(***************************************************************************)
ConstructDone == pc = "done" /\ call.fn = "CombinedController.__init__"

\* C12 as stated: constructing a CombinedController with a supplied
\* controller_location, a gain matrix W and max_action, as the robustness
\* test does, succeeds with a equal to the supplied location; with
\* controller_location omitted (and no W), it succeeds with a the zero row of
\* length state_dim.
C12_ConstructionSucceeds ==
    ConstructDone =>
        /\ (call.controller_location # None /\ call.has_W /\ call.max_action # None)
              => (res.k = "ok" /\ cc.a = call.controller_location)
        /\ (call.controller_location = None /\ ~call.has_W)
              => (res.k = "ok" /\ cc.a = Zeros(<<1, call.state_dim>>))

\* The construction of the robustness test has raised.
C12_SetUpRaises ==
    /\ ConstructDone
    /\ call.control_dim = 1
    /\ call.controller_location = T(<<StateDim>>, <<SC, 0, 0>>)
    /\ call.has_W
    /\ call.max_action = Scalar(2 * SC)
    /\ res.k = "TypeError"

\* A construction without W and without a location has succeeded with the
\* zero row as a.
C12_DefaultLocation ==
    /\ ConstructDone
    /\ call.controller_location = None /\ ~call.has_W
    /\ res.k = "ok"
    /\ cc.a = Zeros(<<1, StateDim>>)
(***************************************************************************)
(* C13: the steps of RbfController.compute_action, under Spec.             *)
(***************************************************************************)
\* The covariance s with variance[o] - jitter taken from its diagonal entry
\* (o, o), entry by entry.
DiagonalCorrected(s, variance, jitter) ==
    T(s.sh, [i \in 1..Len(s.d) |->
                IF (i - 1) \div s.sh[2] = (i - 1) % s.sh[2]
                THEN s.d[i] - (variance.d[1 + ((i - 1) % s.sh[2])] - jitter)
                ELSE s.d[i]])

\* The calls of a sequence that pass a matrix other than zeros as iK to the
\* predictor.
NonZeroPredicts(calls) ==
    {k \in 1..Len(calls) :
        calls[k].fn = "predict_given_factorizations" /\ calls[k].iK # Zeros(calls[k].iK.sh)}

\* C13: a call of RbfController.compute_action first obtains (iK, beta) from
\* the factorisation, then calls the predictor with zeros of the shape of iK
\* in place of iK and with beta as it is, then takes (variance - 1e-6) from
\* the diagonal of the predicted covariance; with squash = true it then calls
\* squash_sin on the predicted mean and the corrected covariance and
\* multiplies the input-output covariance on the right by the one of
\* squash_sin, with squash = false it returns the predicted mean, the
\* corrected covariance and the predicted input-output covariance; a matrix
\* other than zeros is never passed as iK.
C13_RbfStepsInOrder ==
    (pc = "done" /\ call.fn = "RbfController.compute_action") =>
        LET self == cc.rbc_controller
            f == calculate_factorizations(self)
            p == predict_given_factorizations(self, call.m, call.s, Zeros(f.iK.sh), f.beta)
            c == DiagonalCorrected(p.S, self.variance, Jitter)
            sq == squash_sin(p.M, c, self.max_action)
        IN  /\ Len(res.calls) >= 3
            /\ res.calls[1] = call
            /\ res.calls[2] = EvFactorize(f.iK, f.beta)
            /\ res.calls[3] = EvPredict(call.m, call.s, Zeros(f.iK.sh), f.beta)
            /\ NonZeroPredicts(res.calls) = {}
            /\ p.k = "ok"
            /\ IF call.squash
               THEN /\ Len(res.calls) = 4
                    /\ res.calls[4] = EvSquash(p.M, c, self.max_action)
                    /\ res.k = sq.k
                    /\ res.M = sq.M
                    /\ res.S = sq.S
                    /\ res.V = (IF sq.k = "ok" THEN MatMul(p.V, sq.V) ELSE Err)
               ELSE /\ Len(res.calls) = 3
                    /\ res.k = "ok"
                    /\ res.M = p.M
                    /\ res.S = c
                    /\ res.V = p.V

\* A squashing call on a controller whose factorisation has a non-zero iK:
\* the covariance handed to squash_sin is not the predicted one.
C13_Witness ==
    /\ pc = "done"
    /\ call.fn = "RbfController.compute_action"
    /\ call.squash
    /\ res.k = "ok"
    /\ calculate_factorizations(cc.rbc_controller).iK
          # Zeros(calculate_factorizations(cc.rbc_controller).iK.sh)
    /\ Len(res.calls) = 4
    /\ res.calls[4].s # predict_given_factorizations(cc.rbc_controller, call.m, call.s,
                                                     res.calls[3].iK, res.calls[3].beta).S
    /\ res.M # res.calls[4].m

\* A call with squash = false: the diagonal correction is made all the same.
C13_CorrectedUnsquashed ==
    /\ pc = "done"
    /\ call.fn = "RbfController.compute_action"
    /\ ~call.squash
    /\ res.k = "ok"
    /\ res.S # predict_given_factorizations(cc.rbc_controller, call.m, call.s,
                                            res.calls[3].iK, res.calls[3].beta).S

=============================================================================
